---- MODULE Spec2Model ----
(***************************************************************************)
(* Model of UrlShortenerService (src/main.rs): the links map and the four   *)
(* handlers handle_create_short_link, handle_redirect,                      *)
(* handle_change_short_link and get_stats.                                  *)
(***************************************************************************)
EXTENDS Integers, Sequences, FiniteSets, TLC

\* ---------------------------------------------------------------- bounds
\* handle_redirect calls explored per slug (the counter is a u64)
MaxRedirects == 2
\* successful commands explored per behaviour
MaxCommands == 5

\* ------------------------------------------------------------ value sets
\* Option<Slug>::None
None == "None"

\* Slug(String): slugs a caller may supply; any string is accepted
Slugs == {"abc", "a1B2c3", "Zz9Yy8"}

\* the values generate_random_slug can return: six alphanumeric characters
RandomSlugs == {"a1B2c3", "Zz9Yy8"}

\* Url(String): the empty string is one of the values a caller may pass
Urls == {"", "https://x.com", "https://z.com"}

\* the URL validator of the specification: a URL must be non-empty
IsValidUrl(url) == url # ""

\* Result<T, ShortenerError>
Ok(v) == [ok |-> TRUE, value |-> v]
Err(e) == [ok |-> FALSE, err |-> e]

\* ShortLink { slug, url }
ShortLink(slug, url) == [slug |-> slug, url |-> url]

\* Stats { link, redirects }
Stats(link, redirects) == [link |-> link, redirects |-> redirects]

\* HashMap::insert / VacantEntry::insert on the links map
Insert(l, k, v) == [x \in (DOMAIN l) \cup {k} |-> IF x = k THEN v ELSE l[x]]

\* ------------------------------------------------------------- handlers
\* Each handler is a function of the links map and its arguments to the
\* new links map and the returned Result.

\* bug variant: inserts before looking, so an occupied entry is overwritten
handle_create_short_link_insert_first(l, url, slug, generated) ==
    LET s == IF slug = None THEN generated ELSE slug
        short_link == ShortLink(s, url)
    IN  [links  |-> Insert(l, s, [link |-> short_link, redirects |-> 0]),
         result |-> IF s \in DOMAIN l THEN Err("SlugAlreadyInUse")
                                      ELSE Ok(short_link)]

\* bug variant: the new entry starts with a redirect count of 1
handle_create_short_link_count_one(l, url, slug, generated) ==
    LET s == IF slug = None THEN generated ELSE slug
        short_link == ShortLink(s, url)
    IN  IF s \in DOMAIN l
        THEN [links |-> l, result |-> Err("SlugAlreadyInUse")]
        ELSE [links  |-> Insert(l, s, [link |-> short_link, redirects |-> 1]),
              result |-> Ok(short_link)]

\* bug variant: HashMap::insert without a check, an occupied entry is replaced
handle_create_short_link_overwrite(l, url, slug, generated) ==
    LET s == IF slug = None THEN generated ELSE slug
        short_link == ShortLink(s, url)
    IN  [links  |-> Insert(l, s, [link |-> short_link, redirects |-> 0]),
         result |-> Ok(short_link)]

\* bug variant: a generated slug that is taken is replaced by a free one
handle_create_short_link_retry(l, url, slug, generated) ==
    LET free == RandomSlugs \ DOMAIN l
        s == IF slug # None THEN slug
             ELSE IF generated \in DOMAIN l /\ free # {}
                  THEN CHOOSE r \in free : TRUE
                  ELSE generated
    IN  IF s \in DOMAIN l
        THEN [links |-> l, result |-> Err("SlugAlreadyInUse")]
        ELSE [links  |-> Insert(l, s, [link |-> ShortLink(s, url),
                                       redirects |-> 0]),
              result |-> Ok(ShortLink(s, url))]

\* bug variant: the stored link gets a slug of its own, drawn a second time
handle_create_short_link_second_draw(l, url, slug, generated) ==
    LET s == IF slug = None THEN generated ELSE slug
        other == IF slug = None
                 THEN CHOOSE r \in RandomSlugs : r # generated
                 ELSE slug
    IN  IF s \in DOMAIN l
        THEN [links |-> l, result |-> Err("SlugAlreadyInUse")]
        ELSE [links  |-> Insert(l, s, [link |-> ShortLink(other, url),
                                       redirects |-> 0]),
              result |-> Ok(ShortLink(other, url))]

handle_create_short_link(l, url, slug, generated) ==
    LET s == IF slug = None THEN generated ELSE slug
    IN  IF s \in DOMAIN l
        THEN [links |-> l, result |-> Err("SlugAlreadyInUse")]
        ELSE LET short_link == ShortLink(s, url)
             IN  [links  |-> Insert(l, s, [link |-> short_link, redirects |-> 0]),
                  result |-> Ok(short_link)]

\* bug variant: returns the link without counting the redirect
handle_redirect_no_count(l, slug) ==
    IF slug \in DOMAIN l
    THEN [links |-> l, result |-> Ok(l[slug].link)]
    ELSE [links |-> l, result |-> Err("SlugNotFound")]

\* bug variant: HashMap::remove in place of get_mut, the entry is taken out
handle_redirect_remove(l, slug) ==
    IF slug \in DOMAIN l
    THEN [links  |-> [x \in (DOMAIN l) \ {slug} |-> l[x]],
          result |-> Ok(l[slug].link)]
    ELSE [links |-> l, result |-> Err("SlugNotFound")]

\* bug variant: the increment is applied to every entry of the map
handle_redirect_counts_all(l, slug) ==
    IF slug \in DOMAIN l
    THEN [links  |-> [x \in DOMAIN l |->
                        [l[x] EXCEPT !.redirects = @ + 1]],
          result |-> Ok(l[slug].link)]
    ELSE [links |-> l, result |-> Err("SlugNotFound")]

handle_redirect(l, slug) ==
    IF slug \in DOMAIN l
    THEN [links  |-> [l EXCEPT ![slug].redirects = @ + 1],
          result |-> Ok(l[slug].link)]
    ELSE [links |-> l, result |-> Err("SlugNotFound")]

\* bug variant: an absent slug is inserted instead of being rejected
handle_change_short_link_upsert(l, slug, new_url) ==
    IF slug \in DOMAIN l
    THEN [links  |-> [l EXCEPT ![slug].link.url = new_url],
          result |-> Ok(ShortLink(l[slug].link.slug, new_url))]
    ELSE [links  |-> Insert(l, slug, [link |-> ShortLink(slug, new_url),
                                      redirects |-> 0]),
          result |-> Ok(ShortLink(slug, new_url))]

\* bug variant: the link is cloned for the caller but the map is not updated
handle_change_short_link_not_stored(l, slug, new_url) ==
    IF slug \in DOMAIN l
    THEN [links  |-> l,
          result |-> Ok(ShortLink(l[slug].link.slug, new_url))]
    ELSE [links |-> l, result |-> Err("SlugNotFound")]

\* bug variant: the entry is replaced by a fresh one, which resets its count
handle_change_short_link_reset_count(l, slug, new_url) ==
    IF slug \in DOMAIN l
    THEN [links  |-> [l EXCEPT ![slug] = [link |-> ShortLink(slug, new_url),
                                          redirects |-> 0]],
          result |-> Ok(ShortLink(slug, new_url))]
    ELSE [links |-> l, result |-> Err("SlugNotFound")]

handle_change_short_link(l, slug, new_url) ==
    IF slug \in DOMAIN l
    THEN [links  |-> [l EXCEPT ![slug].link.url = new_url],
          result |-> Ok(ShortLink(l[slug].link.slug, new_url))]
    ELSE [links |-> l, result |-> Err("SlugNotFound")]

get_stats(l, slug) ==
    IF slug \in DOMAIN l
    THEN Ok(Stats(l[slug].link, l[slug].redirects))
    ELSE Err("SlugNotFound")

\* ---------------------------------------------------------------- state
VARIABLES
    links,          \* UrlShortenerService.links
    call,           \* the latest call: handler, arguments, generated slug
    result,         \* the Result that call returned
    created,        \* slugs for which a create has returned Ok
    redirectCalls,  \* per slug, handle_redirect calls made since its creation
    createUrl,      \* per slug, url of the create that returned Ok
    lastUrl,        \* per slug, url of the latest Ok create or change
    succeeded       \* number of commands that returned Ok

vars == <<links, call, result, created, redirectCalls, createUrl, lastUrl,
          succeeded>>

\* the events the service has recorded: the struct has the single field
\* links and no handler records an event
EventLog == << >>

Commands == {"create", "redirect", "change"}

\* UrlShortenerService::new
Init ==
    /\ links = << >>
    /\ call = [op |-> "new", slug |-> None, url |-> None, generated |-> None]
    /\ result = Err(None)
    /\ created = {}
    /\ redirectCalls = [s \in Slugs |-> 0]
    /\ createUrl = [s \in Slugs |-> None]
    /\ lastUrl = [s \in Slugs |-> None]
    /\ succeeded = 0

Count(r) == IF r.ok THEN succeeded + 1 ELSE succeeded

HandleCreateShortLink ==
    /\ succeeded < MaxCommands
    /\ \E url \in Urls, slug \in Slugs \cup {None} :
       \E generated \in (IF slug = None THEN RandomSlugs ELSE {None}) :
          LET r == handle_create_short_link(links, url, slug, generated)
          IN  /\ links' = r.links
              /\ result' = r.result
              /\ call' = [op |-> "create", slug |-> slug, url |-> url,
                          generated |-> generated]
              /\ created' = IF r.result.ok
                            THEN created \cup {r.result.value.slug}
                            ELSE created
              /\ createUrl' = IF r.result.ok
                              THEN [createUrl EXCEPT ![r.result.value.slug] = url]
                              ELSE createUrl
              /\ lastUrl' = IF r.result.ok
                            THEN [lastUrl EXCEPT ![r.result.value.slug] = url]
                            ELSE lastUrl
              /\ succeeded' = Count(r.result)
              /\ UNCHANGED redirectCalls

HandleRedirect ==
    /\ succeeded < MaxCommands
    /\ \E slug \in Slugs :
          /\ redirectCalls[slug] < MaxRedirects
          /\ LET r == handle_redirect(links, slug)
             IN  /\ links' = r.links
                 /\ result' = r.result
                 /\ call' = [op |-> "redirect", slug |-> slug, url |-> None,
                             generated |-> None]
                 /\ redirectCalls' = IF slug \in created
                                     THEN [redirectCalls EXCEPT ![slug] = @ + 1]
                                     ELSE redirectCalls
                 /\ succeeded' = Count(r.result)
                 /\ UNCHANGED <<created, createUrl, lastUrl>>

HandleChangeShortLink ==
    /\ succeeded < MaxCommands
    /\ \E slug \in Slugs, new_url \in Urls :
          LET r == handle_change_short_link(links, slug, new_url)
          IN  /\ links' = r.links
              /\ result' = r.result
              /\ call' = [op |-> "change", slug |-> slug, url |-> new_url,
                          generated |-> None]
              /\ lastUrl' = IF r.result.ok
                            THEN [lastUrl EXCEPT ![slug] = new_url]
                            ELSE lastUrl
              /\ succeeded' = Count(r.result)
              /\ UNCHANGED <<created, createUrl, redirectCalls>>

\* bug variant: reading the statistics is counted as a redirect
GetStatsCounted ==
    \E slug \in Slugs :
       /\ result' = get_stats(links, slug)
       /\ links' = handle_redirect(links, slug).links
       /\ call' = [op |-> "stats", slug |-> slug, url |-> None,
                   generated |-> None]
       /\ UNCHANGED <<created, redirectCalls, createUrl, lastUrl, succeeded>>

GetStats ==
    \E slug \in Slugs :
       /\ result' = get_stats(links, slug)
       /\ call' = [op |-> "stats", slug |-> slug, url |-> None,
                   generated |-> None]
       /\ UNCHANGED <<links, created, redirectCalls, createUrl, lastUrl,
                   succeeded>>

Next ==
    \/ HandleCreateShortLink
    \/ HandleRedirect
    \/ HandleChangeShortLink
    \/ GetStats

Spec == Init /\ [][Next]_vars

\* ------------------------------------------------------- replay (spec 4.3)
\* the three projections the links map holds: existence index, directory
\* and click counter
Projections(l) ==
    [index     |-> DOMAIN l,
     directory |-> [s \in DOMAIN l |-> l[s].link.url],
     clicks    |-> [s \in DOMAIN l |-> l[s].redirects]]

EmptyProjections == Projections(<< >>)

\* apply(event) of the Aggregate Replay Engine
Apply(p, e) ==
    CASE e.type = "LinkCreated" ->
            [index     |-> p.index \cup {e.slug},
             directory |-> Insert(p.directory, e.slug, e.url),
             clicks    |-> Insert(p.clicks, e.slug, 0)]
      [] e.type = "LinkUrlChanged" ->
            [p EXCEPT !.directory[e.slug] = e.url]
      [] e.type = "RedirectRecorded" ->
            [p EXCEPT !.clicks[e.slug] = @ + 1]

RECURSIVE Fold(_, _)
Fold(p, log) ==
    IF log = << >> THEN p ELSE Fold(Apply(p, Head(log)), Tail(log))

\* rebuild(): reset the projections and fold the whole log in order
Rebuild(log) == Fold(EmptyProjections, log)

\* ================================================================ claims

\* C1 - Monotonic counting: once slug s is created, get_stats(s).redirects
\* equals the number of handle_redirect(s) calls made since, whatever other
\* calls are interleaved; right after the creation it is 0.
MonotonicCounting ==
    /\ \A s \in created :
          /\ get_stats(links, s).ok
          /\ get_stats(links, s).value.redirects = redirectCalls[s]
    /\ (call.op = "create" /\ result.ok) =>
          /\ get_stats(links, result.value.slug).ok
          /\ get_stats(links, result.value.slug).value.redirects = 0
    /\ (call.op = "stats" /\ call.slug \in created) =>
          /\ result.ok
          /\ result.value.redirects = redirectCalls[call.slug]

\* two redirects of a slug counted, read back by get_stats after its URL
\* was changed and while another slug exists
MonotonicCountingWitness ==
    /\ call.op = "stats"
    /\ call.slug \in created
    /\ redirectCalls[call.slug] = 2
    /\ result.ok
    /\ result.value.redirects = 2
    /\ createUrl[call.slug] # lastUrl[call.slug]
    /\ Cardinality(created) >= 2

\* C2 - Replay equivalence: rebuilding the projections from the Event Log
\* gives the projections the service holds.
ReplayEquivalence == Rebuild(EventLog) = Projections(links)

\* C3 - The Event Log holds one event per successful command, so its length
\* is the number of commands that succeeded.
EventLogLength == Len(EventLog) = succeeded

\* C4 - A create with a supplied slug that already exists fails with
\* SlugAlreadyInUse for any URL and leaves the existing link's URL and
\* redirect count as they were.
CreateExistingSlugFails ==
    [][(call'.op = "create" /\ call'.slug \in created) =>
          /\ result' = Err("SlugAlreadyInUse")
          /\ call'.slug \in DOMAIN links'
          /\ links'[call'.slug] = links[call'.slug]]_vars

\* a create on a slug that exists with another URL and a non-zero count was
\* rejected
CreateExistingSlugFailsWitness ==
    /\ call.op = "create"
    /\ call.slug \in created
    /\ result = Err("SlugAlreadyInUse")
    /\ call.url # lastUrl[call.slug]
    /\ redirectCalls[call.slug] > 0

\* C5 (as stated) - A create with a valid URL and no slug always succeeds.
CreateWithoutSlugAlwaysSucceeds ==
    (call.op = "create" /\ call.slug = None /\ IsValidUrl(call.url)) => result.ok

\* C5 (amended) - A create with no slug succeeds unless the generated slug is
\* already in use; it then returns that slug, which was not in use before,
\* and get_stats on it reports the supplied URL and 0 redirects. When the
\* generated slug is in use the create fails with SlugAlreadyInUse.
CreateWithoutSlug ==
    [][(call'.op = "create" /\ call'.slug = None) =>
          IF call'.generated \in created
          THEN result' = Err("SlugAlreadyInUse")
          ELSE /\ result' = Ok(ShortLink(call'.generated, call'.url))
               /\ result'.value.slug \notin DOMAIN links
               /\ get_stats(links', result'.value.slug)
                     = Ok(Stats(ShortLink(call'.generated, call'.url), 0))]_vars

\* a create without slug succeeded with a valid URL while another link
\* existed
CreateWithoutSlugWitness ==
    /\ call.op = "create"
    /\ call.slug = None
    /\ IsValidUrl(call.url)
    /\ result.ok
    /\ result.value.slug = call.generated
    /\ Cardinality(created) >= 2

\* C6 - A create whose URL fails validation fails with InvalidUrl, whatever
\* the slug argument is, and creates no link.
CreateInvalidUrlFails ==
    [][(call'.op = "create" /\ ~IsValidUrl(call'.url)) =>
          /\ result' = Err("InvalidUrl")
          /\ links' = links]_vars

\* C7 - A change with an invalid URL fails with InvalidUrl on an existing
\* slug, which keeps its URL, and with SlugNotFound on an absent slug.
ChangeInvalidUrlFails ==
    [][(call'.op = "change" /\ ~IsValidUrl(call'.url)) =>
          IF call'.slug \in created
          THEN /\ result' = Err("InvalidUrl")
               /\ links' = links
          ELSE result' = Err("SlugNotFound")]_vars

\* C8 - handle_redirect, handle_change_short_link (with a valid URL) and
\* get_stats fail with SlugNotFound exactly on the slugs no create has
\* succeeded for, and succeed on the others.
SlugNotFoundIffNeverCreated ==
    /\ \A s \in Slugs :
          /\ handle_redirect(links, s).result
                = Err("SlugNotFound") <=> s \notin created
          /\ handle_redirect(links, s).result.ok <=> s \in created
          /\ get_stats(links, s) = Err("SlugNotFound") <=> s \notin created
          /\ get_stats(links, s).ok <=> s \in created
          /\ \A u \in {x \in Urls : IsValidUrl(x)} :
                /\ handle_change_short_link(links, s, u).result
                      = Err("SlugNotFound") <=> s \notin created
                /\ handle_change_short_link(links, s, u).result.ok
                      <=> s \in created
    /\ (call.op \in {"redirect", "stats"}
          \/ (call.op = "change" /\ IsValidUrl(call.url))) =>
          /\ result = Err("SlugNotFound") <=> call.slug \notin created
          /\ result.ok <=> call.slug \in created

\* a redirect of a slug never created was refused while other slugs exist
SlugNotFoundWitness ==
    /\ call.op = "redirect"
    /\ call.slug \notin created
    /\ result = Err("SlugNotFound")
    /\ created # {}
    /\ \E s \in created : redirectCalls[s] > 0

\* C9 - A command that returns an error leaves the service state as it was:
\* the existing slugs, their URLs and their redirect counts.
ErrorLeavesStateUnchanged ==
    [][(call'.op \in Commands /\ ~result'.ok) => links' = links]_vars

\* a command failed on a service that holds links
ErrorLeavesStateUnchangedWitness ==
    /\ call.op \in Commands
    /\ ~result.ok
    /\ Cardinality(DOMAIN links) >= 2
    /\ \E s \in created : redirectCalls[s] > 0 /\ createUrl[s] # lastUrl[s]

\* C10 - Latest-URL rule: for every existing slug, handle_redirect and
\* get_stats return the URL of the latest successful create or change of
\* that slug, and a change returns the link with the new URL; create(abc,
\* x), change(abc, z), redirect(abc) gives stats {abc, z, 1}.
LatestUrlRule ==
    /\ \A s \in created :
          /\ handle_redirect(links, s).result.ok
          /\ handle_redirect(links, s).result.value.url = lastUrl[s]
          /\ get_stats(links, s).ok
          /\ get_stats(links, s).value.link.url = lastUrl[s]
    /\ (call.op = "redirect" /\ result.ok) =>
          result.value.url = lastUrl[call.slug]
    /\ (call.op = "stats" /\ result.ok) =>
          result.value.link.url = lastUrl[call.slug]
    /\ (call.op = "change" /\ result.ok) =>
          result.value = ShortLink(call.slug, call.url)
    /\ (/\ createUrl["abc"] = "https://x.com"
        /\ lastUrl["abc"] = "https://z.com"
        /\ redirectCalls["abc"] = 1) =>
          get_stats(links, "abc")
             = Ok(Stats(ShortLink("abc", "https://z.com"), 1))

\* get_stats(abc) after create(abc, x), change(abc, z), redirect(abc)
LatestUrlRuleWitness ==
    /\ call.op = "stats"
    /\ call.slug = "abc"
    /\ createUrl["abc"] = "https://x.com"
    /\ lastUrl["abc"] = "https://z.com"
    /\ redirectCalls["abc"] = 1
    /\ succeeded = 3
    /\ result = Ok(Stats(ShortLink("abc", "https://z.com"), 1))

\* C11 - Uniqueness: at most one create per slug ever succeeds, whether the
\* slug was supplied or generated: a create that returns Ok returns a slug
\* no earlier create has returned.
CreateSucceedsOncePerSlug ==
    [][(call'.op = "create" /\ result'.ok) =>
          /\ result'.value.slug \notin created
          /\ result'.value.slug \notin DOMAIN links
          /\ result'.value.slug
                = (IF call'.slug = None THEN call'.generated ELSE call'.slug)]_vars

\* every slug has been created once and a further create was refused
CreateSucceedsOncePerSlugWitness ==
    /\ created = Slugs
    /\ succeeded = Cardinality(Slugs)
    /\ call.op = "create"
    /\ ~result.ok

\* C12 - Idempotent read: get_stats leaves the service state as it is, so
\* the Stats (or the SlugNotFound) it returned is what a second get_stats
\* of the same slug returns, also when the call before it was that same
\* query.
IdempotentRead ==
    [][call'.op = "stats" =>
          /\ links' = links
          /\ result' = get_stats(links', call'.slug)
          /\ (call.op = "stats" /\ call.slug = call'.slug) => result' = result]_vars

\* get_stats answered with a count of 2 while some slug does not exist
IdempotentReadWitness ==
    /\ call.op = "stats"
    /\ result.ok
    /\ result.value.redirects = 2
    /\ result = get_stats(links, call.slug)
    /\ \E s \in Slugs : s \notin created

\* C13 - The redirect count of a slug is changed only by a successful
\* handle_redirect of that slug: a successful change keeps the count of its
\* slug and a successful create keeps the counts of the slugs that existed.
CountChangedOnlyByRedirect ==
    [][/\ \A s \in created :
             (s \notin DOMAIN links' \/ s \notin DOMAIN links
                \/ links'[s].redirects # links[s].redirects) =>
                (call'.op = "redirect" /\ call'.slug = s /\ result'.ok)
       /\ (call'.op = "change" /\ result'.ok) =>
             get_stats(links', call'.slug).value.redirects
                = redirectCalls[call'.slug]
       /\ (call'.op = "create" /\ result'.ok) =>
             \A s \in created :
                get_stats(links', s).value.redirects = redirectCalls[s]]_vars

\* a change succeeded on a slug that had been redirected twice
CountChangedOnlyByRedirectWitness ==
    /\ call.op = "change"
    /\ result.ok
    /\ call.url # createUrl[call.slug]
    /\ redirectCalls[call.slug] = 2
    /\ get_stats(links, call.slug).value.redirects = 2

\* C14 - Slug permanence: a slug that has been created exists in every later
\* state: get_stats, handle_redirect and handle_change_short_link with a
\* valid URL do not fail on it and a create that supplies it does not
\* succeed.
SlugPermanence ==
    [][\A s \in created :
          /\ s \in created'
          /\ s \in DOMAIN links'
          /\ get_stats(links', s).ok
          /\ handle_redirect(links', s).result.ok
          /\ \A u \in Urls :
                /\ IsValidUrl(u) =>
                      handle_change_short_link(links', s, u).result.ok
                /\ ~handle_create_short_link(links', u, s, None).result.ok
          /\ call'.slug = s =>
                IF call'.op = "create" THEN ~result'.ok
                ELSE result' # Err("SlugNotFound")]_vars

\* a slug is still known after a redirect, a change and the creation of
\* another slug: a create that supplies it is refused
SlugPermanenceWitness ==
    /\ call.op = "create"
    /\ call.slug \in created
    /\ ~result.ok
    /\ redirectCalls[call.slug] > 0
    /\ createUrl[call.slug] # lastUrl[call.slug]
    /\ Cardinality(created) >= 2
    /\ succeeded >= 4

\* C15 - Projection consistency: in every state between operations the
\* slugs that exist (those created so far), the slugs the service holds a
\* URL for and the slugs it holds a redirect count for are one and the same
\* set, and each of them has both a URL and a count.
ProjectionConsistency ==
    LET p == Projections(links)
    IN  /\ p.index = created
        /\ DOMAIN p.directory = created
        /\ DOMAIN p.clicks = created
        /\ \A s \in created :
              /\ p.directory[s] \in Urls
              /\ p.clicks[s] \in 0..MaxRedirects
              /\ get_stats(links, s)
                    = Ok(Stats(ShortLink(s, p.directory[s]), p.clicks[s]))

\* two slugs exist, one with a changed URL and a counted redirect, the
\* third slug does not
ProjectionConsistencyWitness ==
    /\ Cardinality(created) = 2
    /\ call.op = "redirect"
    /\ result.ok
    /\ createUrl[call.slug] # lastUrl[call.slug]
    /\ Projections(links).clicks[call.slug] = 1

\* C16 - When the slug generated for a create without slug is already in
\* use, the create returns SlugAlreadyInUse: it neither retries with another
\* slug nor overwrites, and the existing link keeps its URL and count.
GeneratedSlugCollision ==
    [][(call'.op = "create" /\ call'.slug = None
          /\ call'.generated \in created) =>
          /\ result' = Err("SlugAlreadyInUse")
          /\ links' = links
          /\ created' = created
          /\ get_stats(links', call'.generated)
                = get_stats(links, call'.generated)]_vars

\* a generated slug collided while another random slug was still free, and
\* the link it collided with has a count
GeneratedSlugCollisionWitness ==
    /\ call.op = "create"
    /\ call.slug = None
    /\ call.generated \in created
    /\ result = Err("SlugAlreadyInUse")
    /\ RandomSlugs \ created # {}
    /\ redirectCalls[call.generated] > 0
    /\ call.url # lastUrl[call.generated]

\* C17 - Per-slug isolation: a successful redirect or change of slug s
\* leaves every other slug's URL and count as they were and adds or removes
\* no slug; a successful create adds exactly one slug and changes no
\* existing entry.
PerSlugIsolation ==
    [][/\ (call'.op \in {"redirect", "change"} /\ result'.ok) =>
             /\ DOMAIN links' = DOMAIN links
             /\ \A t \in DOMAIN links \ {call'.slug} : links'[t] = links[t]
       /\ (call'.op = "create" /\ result'.ok) =>
             /\ DOMAIN links \subseteq DOMAIN links'
             /\ Cardinality(DOMAIN links') = Cardinality(DOMAIN links) + 1
             /\ \A t \in DOMAIN links : links'[t] = links[t]]_vars

\* a redirect succeeded while another slug exists with a count and a
\* changed URL of its own
PerSlugIsolationWitness ==
    /\ call.op = "redirect"
    /\ result.ok
    /\ \E t \in created \ {call.slug} :
          /\ redirectCalls[t] > 0
          /\ createUrl[t] # lastUrl[t]

\* C18 - Every entry of links stores a ShortLink whose slug is the key it is
\* stored under, so the ShortLink returned by handle_redirect,
\* handle_change_short_link and get_stats carries the slug asked for.
StoredSlugIsKey ==
    /\ \A s \in DOMAIN links : links[s].link.slug = s
    /\ (call.op \in {"redirect", "change"} /\ result.ok) =>
          result.value.slug = call.slug
    /\ (call.op = "stats" /\ result.ok) =>
          result.value.link.slug = call.slug

\* a change returned the link of a generated slug
StoredSlugIsKeyWitness ==
    /\ call.op = "change"
    /\ result.ok
    /\ call.slug \in RandomSlugs
    /\ result.value.slug = call.slug
    /\ links[call.slug].link.slug = call.slug
    /\ Cardinality(DOMAIN links) = 3

====
